---- MODULE Spec2Model ----
(***************************************************************************)
(* Order-lifecycle controller of the Pacifica market maker                 *)
(* (src/market_maker.py): the controller loop, the price feed, the user    *)
(* data feed, the Supertrend updater and main()'s start-up and shutdown,   *)
(* run as cooperative asyncio tasks.  One action is one stretch of code    *)
(* between two awaits; a gateway call is split where another task can run  *)
(* between the venue acting and the caller seeing the response.            *)
(*                                                                         *)
(* Units: prices are integers in ticks (tick_size = 1 tick = 0.01 USD),    *)
(* quantities are integers in lots (quantity_precision = 0), money is      *)
(* ticks x lots.  None is 0 for ids, prices, quantities and the balance    *)
(* (the code never stores 0 in any of them) and "none" for a side.         *)
(***************************************************************************)
EXTENDS Integers, Sequences, FiniteSets, TLC

\* ------------------------------------------------------------------ bounds
MaxOrders == 2          \* orders the venue accepts in one run
MaxQueue == 1           \* events held in state.order_updates
MaxEvents == 1          \* rare events in one run: drops, failures, signals
MaxClock == 35          \* seconds the clock of ClockSpec runs
MantBits == 8           \* bits of a float's significand (the build has 53)
MaxValue == 120         \* RoundSpec's values are 0/100 .. MaxValue/100
MaxFails == 8           \* connection attempts that fail in a row (FeedSpec)

\* ------------------------------------------------------- program constants
TicksPerUsd == 100
POSITION_THRESHOLD_USD == 15 * TicksPerUsd
DEFAULT_BALANCE_FRACTION_PCT == 20
SpreadUnit == 100000    \* spreads are counted in units of 0.00001
DEFAULT_BUY_SPREAD == 600
DEFAULT_SELL_SPREAD == 600
SPREAD_MIN_THRESHOLD == 5
SPREAD_MAX_THRESHOLD == 2000
MinNotional == 10 * TicksPerUsd
PRICE_MAX_AGE == 30
DelayUnit == 64                 \* reconnect delays are counted in 1/64 s
SeedDelay == 320                \* reconnect_delay = 5
max_reconnect_delay == 3840     \* 60 s
RecvTimeout == 30               \* wait_for(websocket.recv(), timeout=30.0)
StaleAfter == 60                \* time_since_last_msg > 60
SPREAD_CACHE_TTL_SECONDS == 10

\* ------------------------------------------------------------ input values
Mids == {400, 1000}                 \* mid prices the price stream delivers
Balances == {6000, 20000}           \* available_to_spend values, in ticks
PosAmounts == {0, 3}                \* position amounts the venue reports
Sides == {"bid", "ask"}
PlaceErrors == {"422", "NoPosition", "timeout", "other"}
OrderIds == 1..MaxOrders
\* The plain start-up: the smaller balance, no position (its unused entry
\* price is fixed to the smaller mid).
PlainMid == CHOOSE m \in Mids : \A n \in Mids : m <= n
PlainBalance == CHOOSE b \in Balances : \A c \in Balances : b <= c

VARIABLES
    \* StrategyState
    mid_price, account_balance, position_size, mode, flip_mode,
    supertrend_signal, active_order_id, last_order_price, last_order_side,
    last_order_quantity, order_updates, price_ws_connected,
    user_data_ws_connected,
    \* module globals
    shutdown_requested,
    priceFresh,        \* now - price_last_updated <= 30
    recentOrder,       \* now - last_order_time < MIN_ORDER_INTERVAL
    recentCall,        \* less than MIN_ORDER_INTERVAL has passed since the
                       \* last call of place_order
    \* tasks
    mainPc, ctlPc, pricePc, userPc,
    opening_mode,      \* market_making_loop's local, set once before the loop
    ord,               \* the cycle's locals: side, reduce_only, quantity, price
    \* the venue
    venue,             \* order id -> [st, qty]
    placeCalls,        \* orders accepted so far (the venue numbers them 1, 2, ..)
    venuePos,          \* the account's position at the venue, signed, in lots
    venueEntry,        \* its entry price, 0 with no position
    \* history
    cleanupCalls,      \* cancel_all_orders calls made by cleanup_orders
    emergTried,        \* order an emergency cancel was issued for in this outage
    seenEarly,         \* order the feed saw filled before its id was recorded
    applied,           \* ids whose fill event the loop has applied
    events,            \* rare events so far
    \* the clock of the price data's age (specification ClockSpec)
    clock,             \* the event loop's time, in seconds
    price_last_updated,\* the module global; None is -1
    gotTick,           \* a prices message with mid > 0 has been processed
    sinceTick,         \* seconds since that message
    new_order,         \* the order the loop last asked should_reuse_order about
    reuse,             \* what should_reuse_order answered
    rd,                \* a value, its round_down and the round_down of that
    lots_per_unit,     \* 1 / the symbol's lot size: quantities count lots
    sized,             \* the order the loop last computed
    spread_cache,      \* _SPREAD_CACHE's entry for the symbol
    spread_file,       \* the parameter file: its kind and the spreads its
                       \* keys give (0: a key that gives none)
    last_get,          \* the last _get_spreads_for_symbol call
    feed,              \* one feed task on its own (specification FeedSpec)
    wsc                \* a PacificaWebSocketClient (specification WsSpec)

state_vars == <<mid_price, account_balance, position_size, mode, flip_mode,
                supertrend_signal, active_order_id, last_order_price,
                last_order_side, last_order_quantity, order_updates,
                price_ws_connected, user_data_ws_connected>>
global_vars == <<shutdown_requested, priceFresh, recentOrder, recentCall>>
task_vars == <<mainPc, ctlPc, pricePc, userPc, opening_mode, ord>>
acct_vars == <<venuePos, venueEntry>>
venue_vars == <<venue, placeCalls, acct_vars>>
hist_vars == <<cleanupCalls, emergTried, seenEarly, applied>>
clock_vars == <<clock, price_last_updated, gotTick, sinceTick>>
reuse_vars == <<new_order, reuse>>
sizing_vars == <<lots_per_unit, sized>>
cache_vars == <<spread_cache, spread_file, last_get>>
fn_vars == <<clock_vars, reuse_vars, rd, sizing_vars, cache_vars, feed, wsc>>
main_vars == <<state_vars, global_vars, task_vars, venue_vars, hist_vars, events>>
vars == <<main_vars, fn_vars>>

\* ----------------------------------------------------------------- helpers
Abs(x) == IF x < 0 THEN -x ELSE x

Other(s) == IF s = "bid" THEN "ask" ELSE "bid"

OpeningOf(flip) == IF flip THEN "ask" ELSE "bid"

ClosingOf(flip) == IF flip THEN "bid" ELSE "ask"

NoOrd == [side |-> "none", ro |-> FALSE, qty |-> 0, price |-> 0]

NoVenueOrder == [st |-> "none", side |-> "none", qty |-> 0, price |-> 0]

Live == {o \in OrderIds : venue[o].st = "live"}

Filled == {o \in OrderIds : venue[o].st = "filled"}

\* Python's round(): to the nearest integer, a tie to the even one (n, d > 0).
RoundHalfEven(n, d) ==
    LET q == n \div d
        r == n % d
    IN  IF 2 * r < d THEN q
        ELSE IF 2 * r > d THEN q + 1
        ELSE IF q % 2 = 0 THEN q ELSE q + 1

\* round_down(value, precision) at quantity_precision 0, value = n / d >= 0.
round_down(n, d) == n \div d

is_price_data_valid == mid_price # 0 /\ priceFresh

is_balance_data_valid == account_balance # 0

\* Binary floating point, round to nearest even, with a significand of
\* MantBits bits: [m, e] is m * 2^e with 2^(MantBits-1) <= m < 2^MantBits,
\* and m = 0 for zero.
RECURSIVE Pow2(_)
Pow2(k) == IF k = 0 THEN 1 ELSE 2 * Pow2(k - 1)

RECURSIVE Pow10(_)
Pow10(k) == IF k = 0 THEN 1 ELSE 10 * Pow10(k - 1)

FZero == [m |-> 0, e |-> 0]

\* The float nearest to (n / d) * 2^e, for n >= 0 and d > 0.
RECURSIVE FNearest(_, _, _)
FNearest(n, d, e) ==
    IF n = 0 THEN FZero
    ELSE IF n >= Pow2(MantBits) * d THEN FNearest(n, 2 * d, e + 1)
    ELSE IF n < Pow2(MantBits - 1) * d THEN FNearest(2 * n, d, e - 1)
    ELSE LET m == RoundHalfEven(n, d)
         IN  IF m = Pow2(MantBits)
             THEN [m |-> Pow2(MantBits - 1), e |-> e + 1]
             ELSE [m |-> m, e |-> e]

\* float * int
FMulInt(a, k) == FNearest(a.m * k, 1, a.e)

\* int(float): truncation toward zero
FTrunc(a) == IF a.e >= 0 THEN a.m * Pow2(a.e) ELSE a.m \div Pow2(-a.e)

\* int / int (true division)
FDivInt(n, d) == FNearest(n, d, 0)

\* a <= b on floats
FLeq(a, b) ==
    LET lo == IF a.e < b.e THEN a.e ELSE b.e
    IN  a.m * Pow2(a.e - lo) <= b.m * Pow2(b.e - lo)

\* round_down as the build computes it, in floating point
round_down_float(value, precision) ==
    LET factor == Pow10(precision)
    IN  FDivInt(FTrunc(FMulInt(value, factor)), factor)

NoFile == [kind |-> "missing", buy |-> 0, sell |-> 0]

\* The parameter files: none, one that is not JSON, JSON of another shape
\* than the expected objects, and objects whose keys give these spreads.
FilePayloads ==
    {NoFile, [kind |-> "unparsable", buy |-> 0, sell |-> 0],
     [kind |-> "other", buy |-> 0, sell |-> 0]}
      \cup {[kind |-> "object", buy |-> f[1], sell |-> f[2]] :
               f \in {<<0, 0>>, <<5, 2000>>, <<3, 2500>>, <<400, 0>>,
                      <<400, 800>>}}

NoEntry == [set |-> FALSE, buy |-> 0, sell |-> 0, expires_at |-> 0]

NoAsk == [price |-> 0, side |-> "none", qty |-> 0]

ReuseAtThreshold(new_price, new_side, new_quantity) ==
    IF \/ active_order_id = 0
       \/ last_order_price = 0
       \/ last_order_side # new_side
       \/ last_order_quantity # new_quantity
    THEN FALSE
    ELSE 1000 * Abs(new_price - last_order_price) <= last_order_price

should_reuse_order(new_price, new_side, new_quantity) ==
    IF \/ active_order_id = 0
       \/ last_order_price = 0
       \/ last_order_side # new_side
       \/ last_order_quantity # new_quantity
    THEN FALSE
    ELSE \* |new - last| / last < 0.001
         1000 * Abs(new_price - last_order_price) < last_order_price

\* -------------------------------------------------------------------- Init
\* StrategyState(flip_mode=FLIP_MODE) with FLIP_MODE = False; no task exists yet.
Init ==
    /\ mid_price = 0 /\ account_balance = 0 /\ position_size = 0
    /\ mode = "bid" /\ flip_mode = FALSE /\ supertrend_signal = 0
    /\ active_order_id = 0 /\ last_order_price = 0
    /\ last_order_side = "none" /\ last_order_quantity = 0
    /\ order_updates = <<>>
    /\ price_ws_connected = FALSE /\ user_data_ws_connected = FALSE
    /\ shutdown_requested = FALSE /\ priceFresh = FALSE /\ recentOrder = FALSE
    /\ recentCall = FALSE
    /\ mainPc = "start" /\ ctlPc = "new" /\ pricePc = "new" /\ userPc = "new"
    /\ opening_mode = "none" /\ ord = NoOrd
    /\ venue = [o \in OrderIds |-> NoVenueOrder] /\ placeCalls = 0
    /\ venuePos = 0 /\ venueEntry = 0
    /\ cleanupCalls = 0 /\ emergTried = 0 /\ seenEarly = 0 /\ events = 0
    /\ applied = {}
    /\ clock = 0 /\ price_last_updated = -1 /\ gotTick = FALSE
    /\ sinceTick = 0
    /\ new_order = NoAsk /\ reuse = FALSE
    /\ rd = [pc |-> "idle", precision |-> 0, x |-> FZero, once |-> FZero,
             twice |-> FZero]
    /\ lots_per_unit = 1 /\ sized = NoOrd
    /\ spread_cache = NoEntry /\ spread_file = NoFile
    /\ last_get = [buy |-> 0, sell |-> 0, loaded |-> FALSE, replaced |-> -1,
                   raised |-> FALSE]
    /\ feed = [pc |-> "new", kind |-> "none", subsLeft |-> 0,
               reconnect_delay |-> SeedDelay, silent |-> 0, fails |-> 0,
               subscribed |-> FALSE]
    /\ wsc = [pc |-> "new", auto_reconnect |-> TRUE, should_stop |-> FALSE,
              is_connected |-> FALSE, retry_count |-> 0, failed |-> 0]

\* A rare event of the environment: a connection drop, a failed gateway
\* call, a new signal or balance, the price going stale, a shutdown signal.
Rare == events < MaxEvents /\ events' = events + 1

\* -------------------------------------------------------------------- main
\* signal_handler: SIGINT / SIGTERM set the flag, at any moment of the run.
signal_handler ==
    /\ mainPc # "exited" /\ ~shutdown_requested
    /\ shutdown_requested' = TRUE
    /\ UNCHANGED <<state_vars, priceFresh, recentOrder, recentCall, task_vars,
                   venue_vars,
                   hist_vars>>
    /\ Rare
    /\ UNCHANGED fn_vars

\* initialize_supertrend_signal: trend 1 or -1 sets the signal and the bias;
\* anything else (0: no file, invalid) leaves both.
InitFlip(sig) == IF sig = 0 THEN flip_mode ELSE sig = -1

\* main()'s position reconciliation: adopt the position and start in closing
\* mode only for a position on the bias's side worth more than 15 USD.
StartAdopts(flip, size, entry) ==
    /\ Abs(size * entry) > POSITION_THRESHOLD_USD
    /\ IF flip THEN size < 0 ELSE size > 0

\* What of a start-up departs from the plain one (the first balance, no
\* Supertrend file, no position on the account), counted in rare events.
StartupCost(bal, sig, amt) ==
    (IF bal = PlainBalance THEN 0 ELSE 1) + (IF sig = 0 THEN 0 ELSE 1)
        + (IF amt = 0 THEN 0 ELSE 1)

\* A main() that goes on to create its tasks when the balance fetch failed.
MainStartupProceeds ==
    /\ mainPc = "start"
    /\ \E bal \in Balances \cup {0}, sig \in {0, 1, -1},
          amt \in PosAmounts, dir \in Sides, entry \in Mids :
          LET size == IF dir = "ask" THEN -amt ELSE amt
              flip == InitFlip(sig)
          IN  /\ amt = 0 => (dir = "bid" /\ entry = PlainMid)
              /\ events + StartupCost(bal, sig, amt) <= MaxEvents
              /\ events' = events + StartupCost(bal, sig, amt)
              /\ venuePos' = size
              /\ venueEntry' = IF amt = 0 THEN 0 ELSE entry
              /\ mainPc' = "running"
              /\ account_balance' = bal
              /\ supertrend_signal' = sig
              /\ flip_mode' = flip
              /\ IF StartAdopts(flip, size, entry)
                 THEN /\ position_size' = size
                      /\ mode' = ClosingOf(flip)
                 ELSE UNCHANGED <<position_size, mode>>
              /\ ctlPc' = "init" /\ pricePc' = "down"
              /\ userPc' = "down"
              /\ UNCHANGED <<mid_price, active_order_id,
                             last_order_price, last_order_side,
                             last_order_quantity, order_updates,
                             price_ws_connected,
                             user_data_ws_connected>>
    /\ UNCHANGED <<global_vars, opening_mode, ord, venue, placeCalls, hist_vars>>
    /\ UNCHANGED fn_vars

\* main() up to the creation of the tasks.  bal = 0: the balance fetch failed
\* and main returns through its finally with no task created.  amt, dir and
\* entry are the position the account holds at the venue.
MainStartup ==
    /\ mainPc = "start"
    /\ \E bal \in Balances \cup {0}, sig \in {0, 1, -1},
          amt \in PosAmounts, dir \in Sides, entry \in Mids :
          LET size == IF dir = "ask" THEN -amt ELSE amt
              flip == InitFlip(sig)
          IN  /\ amt = 0 => (dir = "bid" /\ entry = PlainMid)
              /\ events + StartupCost(bal, sig, amt) <= MaxEvents
              /\ events' = events + StartupCost(bal, sig, amt)
              /\ venuePos' = size
              /\ venueEntry' = IF amt = 0 THEN 0 ELSE entry
              /\ IF bal = 0
                 THEN /\ mainPc' = "cleanup"
                      /\ UNCHANGED <<state_vars, ctlPc, pricePc, userPc>>
                 ELSE /\ mainPc' = "running"
                      /\ account_balance' = bal
                      /\ supertrend_signal' = sig
                      /\ flip_mode' = flip
                      /\ IF StartAdopts(flip, size, entry)
                         THEN /\ position_size' = size
                              /\ mode' = ClosingOf(flip)
                         ELSE UNCHANGED <<position_size, mode>>
                      /\ ctlPc' = "init" /\ pricePc' = "down"
                      /\ userPc' = "down"
                      /\ UNCHANGED <<mid_price, active_order_id,
                                     last_order_price, last_order_side,
                                     last_order_quantity, order_updates,
                                     price_ws_connected,
                                     user_data_ws_connected>>
    /\ UNCHANGED <<global_vars, opening_mode, ord, venue, placeCalls, hist_vars>>
    /\ UNCHANGED fn_vars

\* A main() that leaves the controller task running when it stops the feeds.
MainLeavesController ==
    /\ mainPc = "running"
    /\ shutdown_requested \/ ctlPc = "done"
    /\ mainPc' = "cleanup"
    /\ pricePc' = "done" /\ userPc' = "done"
    /\ price_ws_connected' = FALSE /\ user_data_ws_connected' = FALSE
    /\ UNCHANGED <<mid_price, account_balance, position_size, mode, flip_mode,
                   supertrend_signal, active_order_id, last_order_price,
                   last_order_side, last_order_quantity, order_updates,
                   global_vars, ctlPc, opening_mode, ord, venue_vars, hist_vars>>
    /\ UNCHANGED events
    /\ UNCHANGED fn_vars

\* main()'s wait loop ends on the flag or when the controller task is done;
\* control leaves the client's context (the session closes, so a gateway call
\* made from here on raises) and the finally clause cancels and gathers every
\* task.  A cancelled task gets CancelledError at its await; the feeds' finally
\* clauses clear their flags.
MainStopsTasks ==
    /\ mainPc = "running"
    /\ shutdown_requested \/ ctlPc = "done"
    /\ mainPc' = "cleanup"
    /\ ctlPc' = "done" /\ pricePc' = "done" /\ userPc' = "done"
    /\ price_ws_connected' = FALSE /\ user_data_ws_connected' = FALSE
    /\ UNCHANGED <<mid_price, account_balance, position_size, mode, flip_mode,
                   supertrend_signal, active_order_id, last_order_price,
                   last_order_side, last_order_quantity, order_updates,
                   global_vars, opening_mode, ord, venue_vars, hist_vars>>
    /\ UNCHANGED events
    /\ UNCHANGED fn_vars

\* cleanup_orders: one cancel_all_orders call; ok = FALSE: it raised, which is
\* logged and swallowed.
cleanup_orders ==
    /\ mainPc = "cleanup"
    /\ mainPc' = "exited"
    /\ cleanupCalls' = cleanupCalls + 1
    /\ \E ok \in BOOLEAN :
          /\ venue' = IF ok
                      THEN [o \in OrderIds |->
                              IF venue[o].st = "live"
                              THEN [venue[o] EXCEPT !.st = "cancelled"]
                              ELSE venue[o]]
                      ELSE venue
          /\ IF ok THEN UNCHANGED events ELSE Rare
    /\ UNCHANGED <<state_vars, global_vars, ctlPc, pricePc, userPc,
                   opening_mode, ord, placeCalls, acct_vars, emergTried,
                   seenEarly>>
    /\ UNCHANGED applied
    /\ UNCHANGED fn_vars

\* -------------------------------------------------------------- price feed
\* A feed task is "down" (connecting, or sleeping before the next attempt),
\* "up" (subscribed, in its receive loop) or "done" (its loop has ended).

\* An outage ends when both flags are true again.
EmergTriedAfter(p, u) == IF p /\ u THEN 0 ELSE emergTried

\* websockets.connect and the subscription succeed: the flag is set.
PriceConnect ==
    /\ pricePc = "down"
    /\ pricePc' = "up"
    /\ price_ws_connected' = TRUE
    /\ emergTried' = EmergTriedAfter(TRUE, user_data_ws_connected)
    /\ UNCHANGED <<mid_price, account_balance, position_size, mode, flip_mode,
                   supertrend_signal, active_order_id, last_order_price,
                   last_order_side, last_order_quantity, order_updates,
                   user_data_ws_connected, global_vars, mainPc, ctlPc, userPc,
                   opening_mode, ord, venue_vars, cleanupCalls, seenEarly>>
    /\ UNCHANGED events
    /\ UNCHANGED applied
    /\ UNCHANGED fn_vars

\* The open connection closes, errors or goes stale: the finally clause
\* clears the flag and the task goes to reconnect.
PriceDrop ==
    /\ pricePc = "up"
    /\ price_ws_connected' = FALSE
    /\ pricePc' = "down"
    /\ UNCHANGED <<mid_price, account_balance, position_size, mode, flip_mode,
                   supertrend_signal, active_order_id, last_order_price,
                   last_order_side, last_order_quantity, order_updates,
                   user_data_ws_connected, global_vars, mainPc, ctlPc, userPc,
                   opening_mode, ord, venue_vars, hist_vars>>
    /\ Rare
    /\ UNCHANGED fn_vars

\* The task's loops see shutdown_requested and end.
PriceExit ==
    /\ pricePc \in {"down", "up"}
    /\ shutdown_requested
    /\ price_ws_connected' = FALSE
    /\ pricePc' = "done"
    /\ UNCHANGED <<mid_price, account_balance, position_size, mode, flip_mode,
                   supertrend_signal, active_order_id, last_order_price,
                   last_order_side, last_order_quantity, order_updates,
                   user_data_ws_connected, global_vars, mainPc, ctlPc, userPc,
                   opening_mode, ord, venue_vars, hist_vars>>
    /\ UNCHANGED events
    /\ UNCHANGED fn_vars

\* A prices message for the symbol with mid > 0.
PriceTick ==
    /\ pricePc = "up"
    /\ \E m \in Mids : mid_price' = m
    /\ priceFresh' = TRUE
    /\ UNCHANGED <<account_balance, position_size, mode, flip_mode,
                   supertrend_signal, active_order_id, last_order_price,
                   last_order_side, last_order_quantity, order_updates,
                   price_ws_connected, user_data_ws_connected,
                   shutdown_requested, recentOrder, recentCall, task_vars,
                   venue_vars, hist_vars>>
    /\ UNCHANGED events
    /\ UNCHANGED fn_vars

\* More than 30 s pass with no price update.
PriceAges ==
    /\ priceFresh /\ mainPc = "running"
    /\ priceFresh' = FALSE
    /\ UNCHANGED <<state_vars, shutdown_requested, recentOrder, recentCall,
                   task_vars, venue_vars, hist_vars>>
    /\ Rare
    /\ UNCHANGED fn_vars

\* MIN_ORDER_INTERVAL passes since the last order was placed.
OrderIntervalPasses ==
    /\ recentOrder /\ mainPc = "running"
    /\ recentOrder' = FALSE /\ recentCall' = FALSE
    /\ UNCHANGED <<state_vars, shutdown_requested, priceFresh, task_vars,
                   venue_vars, hist_vars>>
    /\ UNCHANGED events
    /\ UNCHANGED fn_vars

\* supertrend_signal_updater: the file's trend, or 1 when missing or invalid.
supertrend_signal_updater ==
    /\ mainPc = "running" /\ ~shutdown_requested
    /\ \E sig \in {1, -1} : sig # supertrend_signal /\ supertrend_signal' = sig
    /\ UNCHANGED <<mid_price, account_balance, position_size, mode, flip_mode,
                   active_order_id, last_order_price, last_order_side,
                   last_order_quantity, order_updates, price_ws_connected,
                   user_data_ws_connected, global_vars, task_vars, venue_vars,
                   hist_vars>>
    /\ Rare
    /\ UNCHANGED fn_vars

\* ---------------------------------------------------------- user data feed
UserConnect ==
    /\ userPc = "down"
    /\ userPc' = "up"
    /\ user_data_ws_connected' = TRUE
    /\ emergTried' = EmergTriedAfter(price_ws_connected, TRUE)
    /\ UNCHANGED <<mid_price, account_balance, position_size, mode, flip_mode,
                   supertrend_signal, active_order_id, last_order_price,
                   last_order_side, last_order_quantity, order_updates,
                   price_ws_connected, global_vars, mainPc, ctlPc, pricePc,
                   opening_mode, ord, venue_vars, cleanupCalls, seenEarly>>
    /\ UNCHANGED events
    /\ UNCHANGED applied
    /\ UNCHANGED fn_vars

UserDrop ==
    /\ userPc = "up"
    /\ user_data_ws_connected' = FALSE
    /\ userPc' = "down"
    /\ UNCHANGED <<mid_price, account_balance, position_size, mode, flip_mode,
                   supertrend_signal, active_order_id, last_order_price,
                   last_order_side, last_order_quantity, order_updates,
                   price_ws_connected, global_vars, mainPc, ctlPc, pricePc,
                   opening_mode, ord, venue_vars, hist_vars>>
    /\ Rare
    /\ UNCHANGED fn_vars

UserExit ==
    /\ userPc \in {"down", "up"}
    /\ shutdown_requested
    /\ user_data_ws_connected' = FALSE
    /\ userPc' = "done"
    /\ UNCHANGED <<mid_price, account_balance, position_size, mode, flip_mode,
                   supertrend_signal, active_order_id, last_order_price,
                   last_order_side, last_order_quantity, order_updates,
                   price_ws_connected, global_vars, mainPc, ctlPc, pricePc,
                   opening_mode, ord, venue_vars, hist_vars>>
    /\ UNCHANGED events
    /\ UNCHANGED fn_vars

\* An account_info handler that stores whatever amount the message carries,
\* a missing one as no balance.
UserAccountInfoStoresAny ==
    /\ userPc = "up"
    /\ \E b \in Balances \cup {0} : b # account_balance /\ account_balance' = b
    /\ UNCHANGED <<mid_price, position_size, mode, flip_mode,
                   supertrend_signal, active_order_id, last_order_price,
                   last_order_side, last_order_quantity, order_updates,
                   price_ws_connected, user_data_ws_connected, global_vars,
                   task_vars, venue_vars, hist_vars>>
    /\ Rare
    /\ UNCHANGED fn_vars

\* account_info: available_to_spend > 0 replaces the balance.
UserAccountInfo ==
    /\ userPc = "up"
    /\ \E b \in Balances : b # account_balance /\ account_balance' = b
    /\ UNCHANGED <<mid_price, position_size, mode, flip_mode,
                   supertrend_signal, active_order_id, last_order_price,
                   last_order_side, last_order_quantity, order_updates,
                   price_ws_connected, user_data_ws_connected, global_vars,
                   task_vars, venue_vars, hist_vars>>
    /\ Rare
    /\ UNCHANGED fn_vars

\* account_positions with an entry for the symbol: [pos, mode] afterwards.
PositionEntry(amt, dir, entry) ==
    LET new_position_size == IF dir = "ask" THEN -amt ELSE amt
        notional_value == IF entry > 0 THEN Abs(new_position_size * entry) ELSE 0
    IN  IF notional_value < POSITION_THRESHOLD_USD
        THEN IF mode # OpeningOf(flip_mode)
             THEN [pos |-> 0, mode |-> OpeningOf(flip_mode)]
             ELSE [pos |-> new_position_size, mode |-> mode]
        ELSE [pos |-> new_position_size, mode |-> ClosingOf(flip_mode)]

\* account_positions with an empty list.
PositionEmpty ==
    IF position_size # 0
    THEN [pos |-> 0, mode |-> OpeningOf(flip_mode)]
    ELSE [pos |-> position_size, mode |-> mode]

\* account_positions: the message is the account's positions as the venue
\* holds them, an entry for the symbol or an empty list.
UserAccountPositions ==
    /\ userPc = "up"
    /\ LET r == IF venuePos # 0
                THEN PositionEntry(Abs(venuePos),
                                   IF venuePos < 0 THEN "ask" ELSE "bid",
                                   venueEntry)
                ELSE PositionEmpty
       IN  /\ position_size' = r.pos
           /\ mode' = r.mode
    /\ UNCHANGED <<mid_price, account_balance, flip_mode, supertrend_signal,
                   active_order_id, last_order_price, last_order_side,
                   last_order_quantity, order_updates, price_ws_connected,
                   user_data_ws_connected, global_vars, task_vars, venue_vars,
                   hist_vars>>
    /\ UNCHANGED events
    /\ UNCHANGED fn_vars

\* The order the venue has accepted and whose id the controller has not yet
\* recorded (place_order's response is still on its way), or 0.
Unrecorded == IF ctlPc = "placeResp" THEN placeCalls ELSE 0

\* The events an account_orders message puts on the queue.  The message lists
\* the venue's open orders; full are the filled orders it still lists, with
\* filled amount = original amount.
OrderEvents(full) ==
    IF active_order_id = 0 THEN <<>>
    ELSE IF active_order_id \in Live THEN <<>>
    ELSE IF active_order_id \in full
         THEN <<[i |-> active_order_id, z |-> venue[active_order_id].qty]>>
         ELSE <<[i |-> active_order_id, z |-> last_order_quantity]>>

UserAccountOrders ==
    /\ userPc = "up"
    /\ \E full \in SUBSET Filled :
          /\ Len(order_updates) + Len(OrderEvents(full)) <= MaxQueue
          /\ order_updates' = order_updates \o OrderEvents(full)
    /\ seenEarly' = IF Unrecorded \in Filled THEN Unrecorded ELSE seenEarly
    /\ UNCHANGED <<mid_price, account_balance, position_size, mode, flip_mode,
                   supertrend_signal, active_order_id, last_order_price,
                   last_order_side, last_order_quantity, price_ws_connected,
                   user_data_ws_connected, global_vars, task_vars, venue_vars,
                   cleanupCalls, emergTried>>
    /\ UNCHANGED events
    /\ UNCHANGED applied
    /\ UNCHANGED fn_vars

\* ------------------------------------------------------------------- venue
\* A resting order fills completely: the account's position moves by the
\* order's quantity, and a fill that opens or adds to it sets the entry price.
VenueFill ==
    /\ mainPc # "exited"
    /\ \E o \in Live :
          LET p == IF venue[o].side = "bid" THEN venuePos + venue[o].qty
                   ELSE venuePos - venue[o].qty
          IN  /\ venue' = [venue EXCEPT ![o].st = "filled"]
              /\ venuePos' = p
              /\ venueEntry' = IF p = 0 THEN 0
                               ELSE IF p * venuePos > 0 /\ Abs(p) < Abs(venuePos)
                                    THEN venueEntry
                                    ELSE venue[o].price
    /\ UNCHANGED <<state_vars, global_vars, task_vars, placeCalls, hist_vars>>
    /\ UNCHANGED events
    /\ UNCHANGED fn_vars

\* The venue takes a resting order off its book on its own (an expiry, a
\* reduce-only order left without a position, an intervention): the order is
\* gone from the open orders with nothing filled.
VenueCancels ==
    /\ mainPc # "exited"
    /\ \E o \in Live : venue' = [venue EXCEPT ![o].st = "cancelled"]
    /\ UNCHANGED <<state_vars, global_vars, task_vars, placeCalls, venuePos,
                   venueEntry, hist_vars>>
    /\ Rare
    /\ UNCHANGED fn_vars

\* cancel_order(symbol, id): the venue's state after the call.  The call
\* succeeds only for a resting order; raise_for_status raises otherwise.
VenueAfterCancel(id, ok) ==
    IF ok THEN [venue EXCEPT ![id].st = "cancelled"] ELSE venue

\* ok = FALSE for a resting order is a transient failure of the call, a rare
\* event; the cancel of an order that is gone fails every time.
CancelOutcomes(id) ==
    IF id \notin Live THEN {FALSE}
    ELSE IF events < MaxEvents THEN BOOLEAN ELSE {TRUE}

CancelCounted(id, ok) ==
    events' = IF id \in Live /\ ~ok THEN events + 1 ELSE events

\* -------------------------------------------------------------- controller
\* get_symbol_filters and the two locals set before the loop; ok = FALSE: the
\* call raises and the task ends.
CtlStart ==
    /\ ctlPc = "init"
    /\ \E ok \in BOOLEAN :
          IF ok THEN /\ ctlPc' = "head"
                     /\ opening_mode' = OpeningOf(flip_mode)
                     /\ UNCHANGED events
                ELSE /\ ctlPc' = "done"
                     /\ UNCHANGED opening_mode
                     /\ Rare
    /\ UNCHANGED <<state_vars, global_vars, mainPc, pricePc, userPc, ord,
                   venue_vars, hist_vars>>
    /\ UNCHANGED fn_vars

closing_mode == Other(opening_mode)

\* _extract_spread on the spread a key of the file gives (0: none): a spread
\* outside the thresholds is dropped.
extract_spread(spread) ==
    IF spread = 0 THEN 0
    ELSE IF ~(SPREAD_MIN_THRESHOLD <= spread /\ spread <= SPREAD_MAX_THRESHOLD)
         THEN 0
    ELSE spread

\* _load_spread_overrides.  A missing file is skipped and a file that is not
\* JSON is caught; a JSON value of another shape than the expected objects
\* makes a .get call raise AttributeError, outside the try.
load_spread_overrides ==
    IF spread_file.kind \in {"missing", "unparsable"}
    THEN [raises |-> FALSE, buy |-> 0, sell |-> 0]
    ELSE IF spread_file.kind = "other"
         THEN [raises |-> TRUE, buy |-> 0, sell |-> 0]
    ELSE [raises |-> FALSE, buy |-> extract_spread(spread_file.buy),
          sell |-> extract_spread(spread_file.sell)]

\* _get_spreads_for_symbol's test of the cached entry
CacheFresh == spread_cache.set /\ spread_cache.expires_at > clock

\* The entry _get_spreads_for_symbol stores when the cached one is not fresh.
FreshEntry ==
    [set |-> TRUE,
     buy |-> IF load_spread_overrides.buy # 0 THEN load_spread_overrides.buy
             ELSE DEFAULT_BUY_SPREAD,
     sell |-> IF load_spread_overrides.sell # 0 THEN load_spread_overrides.sell
              ELSE DEFAULT_SELL_SPREAD,
     expires_at |-> clock + SPREAD_CACHE_TTL_SECONDS]

\* get_spreads: the pair _get_spreads_for_symbol returns.
get_spreads ==
    IF CacheFresh THEN [buy |-> spread_cache.buy, sell |-> spread_cache.sell]
    ELSE [buy |-> FreshEntry.buy, sell |-> FreshEntry.sell]

\* limit_price rounded to the tick: mid * (1 + sell) for an ask, mid * (1 - buy)
\* for a bid.
QuotePrice(s) ==
    IF s = "ask"
    THEN RoundHalfEven(mid_price * (SpreadUnit + get_spreads.sell), SpreadUnit)
    ELSE RoundHalfEven(mid_price * (SpreadUnit - get_spreads.buy), SpreadUnit)

\* balance * DEFAULT_BALANCE_FRACTION / mid, rounded down to the lot.
CapitalQuantity ==
    round_down(account_balance * DEFAULT_BALANCE_FRACTION_PCT * lots_per_unit,
               100 * mid_price)

\* abs(state.position_size) > 0.001, the position counted in lots
HasPosition == Abs(position_size) * 1000 > lots_per_unit

\* "Determine Strategy and Parameters" and the rounding to the filters.
ComputeOrder ==
    IF mode = closing_mode
    THEN IF HasPosition
         THEN [side |-> closing_mode, ro |-> TRUE,
               qty |-> round_down(Abs(position_size), 1),
               price |-> QuotePrice(closing_mode)]
         ELSE [side |-> closing_mode, ro |-> FALSE, qty |-> CapitalQuantity,
               price |-> QuotePrice(closing_mode)]
    ELSE [side |-> opening_mode, ro |-> FALSE, qty |-> CapitalQuantity,
          price |-> QuotePrice(opening_mode)]

\* "Safety check for reduce-only orders", then the place_order call is sent.
ReduceOnlyCheck(o) ==
    IF o.ro /\ position_size = 0
    THEN /\ mode' = opening_mode
         /\ position_size' = 0
         /\ ctlPc' = "head"
         /\ ord' = NoOrd
    ELSE /\ ctlPc' = "place"
         /\ ord' = o
         /\ UNCHANGED <<mode, position_size>>

\* "Cancel existing order if we're placing a new one": the cancel call is sent
\* when an id is held, else the cycle goes on to the placement.
CancelOrPlace(o) ==
    IF active_order_id # 0
    THEN /\ ctlPc' = "cancel"
         /\ ord' = o
         /\ UNCHANGED <<mode, position_size>>
    ELSE ReduceOnlyCheck(o)

Healthy == price_ws_connected /\ user_data_ws_connected

\* The Supertrend block at the head of a cycle: the bias follows the signal
\* while the position is worth less than the threshold.
HeadFlip ==
    IF /\ supertrend_signal # 0
       /\ Abs(position_size * mid_price) < POSITION_THRESHOLD_USD
    THEN supertrend_signal = -1
    ELSE flip_mode

\* Where one pass from the loop head leads, up to its first await.
\* A loop head that does not compare the order's notional with the minimum.
HeadOutcomeNoMinimum ==
    LET o == ComputeOrder
    IN  IF shutdown_requested THEN "done"
        ELSE IF ~Healthy
             THEN IF active_order_id # 0 THEN "emergCancel" ELSE "head"
        ELSE IF ~is_price_data_valid \/ ~is_balance_data_valid THEN "head"
        ELSE IF o.qty <= 0 THEN "head"
        ELSE IF should_reuse_order(o.price, o.side, o.qty) THEN "reuseWait"
        ELSE IF recentOrder THEN "rateSleep"
        ELSE "go"

HeadOutcome ==
    LET o == ComputeOrder
    IN  IF shutdown_requested THEN "done"
        ELSE IF ~Healthy
             THEN IF active_order_id # 0 THEN "emergCancel" ELSE "head"
        ELSE IF ~is_price_data_valid \/ ~is_balance_data_valid THEN "head"
        ELSE IF o.qty <= 0 \/ o.price * o.qty < MinNotional THEN "head"
        ELSE IF should_reuse_order(o.price, o.side, o.qty) THEN "reuseWait"
        ELSE IF recentOrder THEN "rateSleep"
        ELSE "go"

CtlHead ==
    /\ ctlPc = "head"
    /\ flip_mode' = IF shutdown_requested \/ ~Healthy THEN flip_mode
                    ELSE HeadFlip
    /\ emergTried' = IF HeadOutcome = "emergCancel" THEN active_order_id
                     ELSE emergTried
    /\ IF HeadOutcome = "go"
       THEN CancelOrPlace(ComputeOrder)
       ELSE /\ ctlPc' = HeadOutcome
            /\ ord' = IF HeadOutcome = "rateSleep" THEN ComputeOrder ELSE NoOrd
            /\ UNCHANGED <<mode, position_size>>
    /\ UNCHANGED <<mid_price, account_balance, supertrend_signal,
                   active_order_id, last_order_price, last_order_side,
                   last_order_quantity, order_updates, price_ws_connected,
                   user_data_ws_connected, shutdown_requested, priceFresh,
                   mainPc, pricePc, userPc, opening_mode, venue_vars,
                   cleanupCalls, seenEarly>>
    \* every path back to the loop head sleeps for at least a second
    /\ recentOrder' = IF ctlPc' = "head" THEN FALSE ELSE recentOrder
    /\ recentCall' = IF ctlPc' = "head" THEN FALSE ELSE recentCall
    /\ UNCHANGED events
    /\ UNCHANGED applied
    /\ UNCHANGED fn_vars

\* The emergency cancel_order call returns or raises; then sleep(1).
CtlEmergCancelReturn ==
    /\ ctlPc = "emergCancel"
    /\ \E ok \in CancelOutcomes(active_order_id) :
          /\ venue' = VenueAfterCancel(active_order_id, ok)
          /\ CancelCounted(active_order_id, ok)
          /\ IF ok
             THEN /\ active_order_id' = 0 /\ last_order_price' = 0
                  /\ last_order_side' = "none" /\ last_order_quantity' = 0
             ELSE UNCHANGED <<active_order_id, last_order_price,
                              last_order_side, last_order_quantity>>
    /\ ctlPc' = "head"
    /\ recentOrder' = FALSE /\ recentCall' = FALSE
    /\ UNCHANGED <<mid_price, account_balance, position_size, mode, flip_mode,
                   supertrend_signal, order_updates, price_ws_connected,
                   user_data_ws_connected, shutdown_requested, priceFresh,
                   mainPc, pricePc,
                   userPc, opening_mode, ord, placeCalls, acct_vars, hist_vars>>
    /\ UNCHANGED fn_vars

\* The rate limiter's sleep ends: MIN_ORDER_INTERVAL has passed.
CtlRateSleepEnds ==
    /\ ctlPc = "rateSleep"
    /\ recentOrder' = FALSE /\ recentCall' = FALSE
    /\ CancelOrPlace(ord)
    /\ UNCHANGED <<mid_price, account_balance, flip_mode, supertrend_signal,
                   active_order_id, last_order_price, last_order_side,
                   last_order_quantity, order_updates, price_ws_connected,
                   user_data_ws_connected, shutdown_requested, priceFresh,
                   mainPc, pricePc, userPc, opening_mode, venue_vars,
                   hist_vars>>
    /\ UNCHANGED events
    /\ UNCHANGED fn_vars

\* The cancel of the existing order returns (the id alone is cleared) or
\* raises (logged); either way the cycle goes on to the placement.
CtlCancelReturn ==
    /\ ctlPc = "cancel"
    /\ \E ok \in CancelOutcomes(active_order_id) :
          /\ venue' = VenueAfterCancel(active_order_id, ok)
          /\ CancelCounted(active_order_id, ok)
          /\ active_order_id' = IF ok THEN 0 ELSE active_order_id
    /\ ReduceOnlyCheck(ord)
    /\ UNCHANGED <<mid_price, account_balance, flip_mode, supertrend_signal,
                   last_order_price, last_order_side, last_order_quantity,
                   order_updates, price_ws_connected, user_data_ws_connected,
                   shutdown_requested, priceFresh, mainPc, pricePc, userPc,
                   opening_mode, placeCalls, acct_vars, hist_vars>>
    /\ recentOrder' = IF ctlPc' = "head" THEN FALSE ELSE recentOrder
    /\ recentCall' = IF ctlPc' = "head" THEN FALSE ELSE recentCall
    /\ UNCHANGED fn_vars

\* The venue turns down a reduce-only order that has no position to reduce.
ReduceOnlyRejected ==
    ord.ro /\ ~(IF ord.side = "ask" THEN venuePos > 0 ELSE venuePos < 0)

\* The venue accepts the order place_order sent; the response is on its way.
VenueAccept ==
    /\ ctlPc = "place"
    /\ ~ReduceOnlyRejected
    /\ placeCalls < MaxOrders
    /\ placeCalls' = placeCalls + 1
    /\ venue' = [venue EXCEPT ![placeCalls + 1] =
                    [st |-> "live", side |-> ord.side, qty |-> ord.qty,
                     price |-> ord.price]]
    /\ ctlPc' = "placeResp"
    /\ seenEarly' = 0
    /\ recentCall' = TRUE
    /\ UNCHANGED <<state_vars, shutdown_requested, priceFresh, recentOrder,
                   mainPc, pricePc, userPc, opening_mode, ord, acct_vars,
                   cleanupCalls, emergTried>>
    /\ UNCHANGED events
    /\ UNCHANGED applied
    /\ UNCHANGED fn_vars

\* A response of place_order after which last_order_time is left as it was.
CtlPlaceReturnNoStamp ==
    /\ ctlPc = "placeResp"
    /\ active_order_id' = placeCalls
    /\ last_order_price' = ord.price
    /\ last_order_side' = ord.side
    /\ last_order_quantity' = ord.qty
    /\ ctlPc' = "wait"
    /\ ord' = NoOrd
    /\ UNCHANGED <<mid_price, account_balance, position_size, mode, flip_mode,
                   supertrend_signal, order_updates, price_ws_connected,
                   user_data_ws_connected, global_vars, mainPc, pricePc,
                   userPc, opening_mode, venue_vars, hist_vars>>
    /\ UNCHANGED events
    /\ UNCHANGED fn_vars

\* place_order's response arrives: last_order_time, the id and the order's
\* details are recorded, and the wait for the fill begins.
CtlPlaceReturn ==
    /\ ctlPc = "placeResp"
    /\ recentOrder' = TRUE
    /\ UNCHANGED recentCall
    /\ active_order_id' = placeCalls
    /\ last_order_price' = ord.price
    /\ last_order_side' = ord.side
    /\ last_order_quantity' = ord.qty
    /\ ctlPc' = "wait"
    /\ ord' = NoOrd
    /\ UNCHANGED <<mid_price, account_balance, position_size, mode, flip_mode,
                   supertrend_signal, order_updates, price_ws_connected,
                   user_data_ws_connected, shutdown_requested, priceFresh,
                   mainPc, pricePc, userPc, opening_mode, venue_vars,
                   hist_vars>>
    /\ UNCHANGED events
    /\ UNCHANGED fn_vars

\* The desync test of the loop's except clause.
IsDesync(err) == (err = "422" /\ mode = closing_mode) \/ err = "NoPosition"

\* place_order raises.  asyncio.TimeoutError has its own handler (log, short
\* sleep); a desync resets the state; anything else cancels the held order
\* and sleeps RETRY_ON_ERROR_INTERVAL.
CtlPlaceFails ==
    /\ ctlPc = "place"
    /\ \E err \in PlaceErrors :
          /\ ReduceOnlyRejected => err \in {"422", "NoPosition"}
          /\ err = "NoPosition" => ReduceOnlyRejected
          /\ IF ReduceOnlyRejected THEN UNCHANGED events ELSE Rare
          /\ IF IsDesync(err)
             THEN /\ position_size' = 0 /\ mode' = opening_mode
                  /\ active_order_id' = 0 /\ last_order_price' = 0
                  /\ last_order_side' = "none" /\ last_order_quantity' = 0
                  /\ ctlPc' = "head"
             ELSE /\ ctlPc' = IF err # "timeout" /\ active_order_id # 0
                              THEN "errCancel" ELSE "head"
                  /\ UNCHANGED <<position_size, mode, active_order_id,
                                 last_order_price, last_order_side,
                                 last_order_quantity>>
    /\ ord' = NoOrd
    \* the call was made; the sleep of 2 s or 30 s on the way to the next
    \* cycle, or the client's own timeout behind a TimeoutError (aiohttp's
    \* default, 300 s), is longer than MIN_ORDER_INTERVAL
    /\ recentCall' = (ctlPc' = "errCancel")
    /\ UNCHANGED <<mid_price, account_balance, flip_mode, supertrend_signal,
                   order_updates, price_ws_connected, user_data_ws_connected,
                   shutdown_requested, priceFresh, recentOrder, mainPc,
                   pricePc, userPc, opening_mode, venue_vars, hist_vars>>
    /\ UNCHANGED fn_vars

\* The error cleanup's cancel returns or raises; then the 30 s sleep.
CtlErrCancelReturn ==
    /\ ctlPc = "errCancel"
    /\ \E ok \in CancelOutcomes(active_order_id) :
          /\ venue' = VenueAfterCancel(active_order_id, ok)
          /\ CancelCounted(active_order_id, ok)
          /\ IF ok
             THEN /\ active_order_id' = 0 /\ last_order_price' = 0
                  /\ last_order_side' = "none" /\ last_order_quantity' = 0
             ELSE UNCHANGED <<active_order_id, last_order_price,
                              last_order_side, last_order_quantity>>
    /\ ctlPc' = "head"
    /\ recentCall' = FALSE
    /\ UNCHANGED <<mid_price, account_balance, position_size, mode, flip_mode,
                   supertrend_signal, order_updates, price_ws_connected,
                   user_data_ws_connected, shutdown_requested, priceFresh,
                   recentOrder, mainPc, pricePc, userPc, opening_mode, ord,
                   placeCalls, acct_vars, hist_vars>>
    /\ UNCHANGED fn_vars

\* "Update state after a fill": [pos, mode] after applying filled_qty.
FillApplied(filled_qty) ==
    IF mode = opening_mode
    THEN [pos |-> IF opening_mode = "bid" THEN position_size + filled_qty
                  ELSE position_size - filled_qty,
          mode |-> closing_mode]
    ELSE LET p == IF closing_mode = "ask" THEN position_size - filled_qty
                  ELSE position_size + filled_qty
         IN  [pos |-> p,
              \* abs(position) < POSITION_THRESHOLD_USD / mid_price
              mode |-> IF mid_price # 0
                          /\ Abs(p) * mid_price < POSITION_THRESHOLD_USD
                       THEN opening_mode ELSE mode]

\* A fill wait that applies the fill and leaves the order's details recorded.
CtlWaitGetsKeepsDetails ==
    /\ ctlPc = "wait"
    /\ order_updates # <<>>
    /\ order_updates' = Tail(order_updates)
    /\ LET e == Head(order_updates)
       IN  IF e.i = active_order_id
           THEN /\ position_size' = FillApplied(e.z).pos
                /\ mode' = FillApplied(e.z).mode
                /\ seenEarly' = 0
                /\ applied' = applied \cup {e.i}
                /\ ctlPc' = "head"
           ELSE UNCHANGED <<position_size, mode, ctlPc, seenEarly, applied>>
    /\ UNCHANGED <<mid_price, account_balance, flip_mode, supertrend_signal,
                   active_order_id, last_order_price, last_order_side,
                   last_order_quantity, price_ws_connected,
                   user_data_ws_connected, global_vars, mainPc, pricePc,
                   userPc, opening_mode, ord, venue_vars, cleanupCalls,
                   emergTried>>
    /\ UNCHANGED events
    /\ UNCHANGED fn_vars

\* A fill wait that applies every ORDER_FILLED event it takes off the queue,
\* whatever order the event is about.
CtlWaitGetsAnyId ==
    /\ ctlPc = "wait"
    /\ order_updates # <<>>
    /\ order_updates' = Tail(order_updates)
    /\ LET e == Head(order_updates)
       IN  /\ position_size' = FillApplied(e.z).pos
           /\ mode' = FillApplied(e.z).mode
           /\ applied' = applied \cup {e.i}
    /\ last_order_price' = 0 /\ last_order_side' = "none"
    /\ last_order_quantity' = 0
    /\ seenEarly' = 0
    /\ ctlPc' = "head"
    /\ UNCHANGED <<mid_price, account_balance, flip_mode, supertrend_signal,
                   active_order_id, price_ws_connected,
                   user_data_ws_connected, global_vars, mainPc, pricePc,
                   userPc, opening_mode, ord, venue_vars, cleanupCalls,
                   emergTried>>
    /\ UNCHANGED events
    /\ UNCHANGED fn_vars

\* The fill wait takes one event off the queue.  An ORDER_FILLED event for the
\* held id ends the wait and is applied; the order's details are cleared (the
\* id is not).  Any other event is dropped and the wait goes on.
CtlWaitGets ==
    /\ ctlPc = "wait"
    /\ order_updates # <<>>
    /\ order_updates' = Tail(order_updates)
    /\ LET e == Head(order_updates)
       IN  IF e.i = active_order_id
           THEN /\ position_size' = FillApplied(e.z).pos
                /\ mode' = FillApplied(e.z).mode
                /\ last_order_price' = 0 /\ last_order_side' = "none"
                /\ last_order_quantity' = 0
                /\ seenEarly' = 0
                /\ applied' = applied \cup {e.i}
                /\ ctlPc' = "head"
           ELSE UNCHANGED <<position_size, mode, last_order_price,
                            last_order_side, last_order_quantity, ctlPc,
                            seenEarly, applied>>
    /\ UNCHANGED <<mid_price, account_balance, flip_mode, supertrend_signal,
                   active_order_id, price_ws_connected,
                   user_data_ws_connected, global_vars, mainPc, pricePc,
                   userPc, opening_mode, ord, venue_vars, cleanupCalls,
                   emergTried>>
    /\ UNCHANGED events
    /\ UNCHANGED fn_vars

\* ORDER_REFRESH_INTERVAL passes with no matching event: the cancel is sent.
\* A fill wait whose timeout goes to the next cycle with nothing cancelled.
CtlWaitTimeoutSkipsCancel ==
    /\ ctlPc = "wait"
    /\ ctlPc' = "head"
    /\ recentOrder' = FALSE /\ recentCall' = FALSE
    /\ UNCHANGED <<state_vars, shutdown_requested, priceFresh, mainPc, pricePc, userPc,
                   opening_mode, ord, venue_vars, hist_vars>>
    /\ UNCHANGED events
    /\ UNCHANGED fn_vars

CtlWaitTimeout ==
    /\ ctlPc = "wait"
    /\ ctlPc' = "timeoutCancel"
    /\ recentOrder' = FALSE /\ recentCall' = FALSE
    /\ UNCHANGED <<state_vars, shutdown_requested, priceFresh, mainPc, pricePc, userPc,
                   opening_mode, ord, venue_vars, hist_vars>>
    /\ UNCHANGED events
    /\ UNCHANGED fn_vars

\* The timeout's cancel returns or raises (logged); the id and the order's
\* details are cleared either way.
CtlTimeoutCancelReturn ==
    /\ ctlPc = "timeoutCancel"
    /\ \E ok \in CancelOutcomes(active_order_id) :
          /\ venue' = VenueAfterCancel(active_order_id, ok)
          /\ CancelCounted(active_order_id, ok)
    /\ active_order_id' = 0 /\ last_order_price' = 0
    /\ last_order_side' = "none" /\ last_order_quantity' = 0
    /\ seenEarly' = 0
    /\ ctlPc' = "head"
    /\ UNCHANGED <<mid_price, account_balance, position_size, mode, flip_mode,
                   supertrend_signal, order_updates, price_ws_connected,
                   user_data_ws_connected, global_vars, mainPc, pricePc,
                   userPc, opening_mode, ord, placeCalls, acct_vars,
                   cleanupCalls, emergTried>>
    /\ UNCHANGED applied
    /\ UNCHANGED fn_vars

\* The reuse branch.  The id and the order's details are held together only
\* during the fill wait, which ends by clearing the details (a fill) or all
\* four fields (a timeout), so should_reuse_order is false at every loop head
\* the tasks reach and the two steps below are not part of Next.
\* The branch's wait takes an event: it looks for type = order_update, which
\* no queued event carries, so the event is dropped.
CtlReuseGets ==
    /\ ctlPc = "reuseWait"
    /\ order_updates # <<>>
    /\ order_updates' = Tail(order_updates)
    /\ UNCHANGED <<mid_price, account_balance, position_size, mode, flip_mode,
                   supertrend_signal, active_order_id, last_order_price,
                   last_order_side, last_order_quantity, price_ws_connected,
                   user_data_ws_connected, global_vars, task_vars, venue_vars,
                   hist_vars>>
    /\ UNCHANGED events
    /\ UNCHANGED fn_vars

\* The reuse branch's wait times out: next cycle, nothing cancelled.
CtlReuseTimeout ==
    /\ ctlPc = "reuseWait"
    /\ ctlPc' = "head"
    /\ UNCHANGED <<state_vars, global_vars, mainPc, pricePc, userPc,
                   opening_mode, ord, venue_vars, hist_vars>>
    /\ UNCHANGED events
    /\ UNCHANGED fn_vars

\* -------------------------------------------------------------------- Next
Next ==
    \/ signal_handler
    \/ MainStartup
    \/ MainStopsTasks
    \/ cleanup_orders
    \/ PriceConnect
    \/ PriceDrop
    \/ PriceExit
    \/ PriceTick
    \/ PriceAges
    \/ OrderIntervalPasses
    \/ supertrend_signal_updater
    \/ UserConnect
    \/ UserDrop
    \/ UserExit
    \/ UserAccountInfo
    \/ UserAccountPositions
    \/ UserAccountOrders
    \/ VenueFill
    \/ VenueCancels
    \/ CtlStart
    \/ CtlHead
    \/ CtlEmergCancelReturn
    \/ CtlRateSleepEnds
    \/ CtlCancelReturn
    \/ VenueAccept
    \/ CtlPlaceReturn
    \/ CtlPlaceFails
    \/ CtlErrCancelReturn
    \/ CtlWaitGets
    \/ CtlWaitTimeout
    \/ CtlTimeoutCancelReturn

Spec == Init /\ [][Next]_vars

\* ------------------------------------------- the price data's age, on a clock
\* is_price_data_valid with the fields and the clock it reads as parameters
\* (None is 0 for the mid price and -1 for price_last_updated).
PriceValidStrictAge(mid, last, now) ==
    IF mid = 0 \/ last = -1 THEN FALSE
    ELSE IF now - last >= PRICE_MAX_AGE THEN FALSE
    ELSE TRUE

PriceValidAt(mid, last, now) ==
    IF mid = 0 \/ last = -1 THEN FALSE
    ELSE IF now - last > PRICE_MAX_AGE THEN FALSE
    ELSE TRUE

\* The prices handler on a message for the symbol: mid > 0 stores the price and
\* the time; m = 0 stands for a message with mid <= 0, which stores nothing.
ClockPriceMessage ==
    /\ \E m \in Mids \cup {0} :
          IF m > 0
          THEN /\ mid_price' = m
               /\ price_last_updated' = clock
               /\ gotTick' = TRUE
               /\ sinceTick' = 0
          ELSE UNCHANGED <<mid_price, price_last_updated, gotTick, sinceTick>>
    /\ UNCHANGED <<account_balance, position_size, mode, flip_mode,
                   supertrend_signal, active_order_id, last_order_price,
                   last_order_side, last_order_quantity, order_updates,
                   price_ws_connected, user_data_ws_connected, global_vars,
                   task_vars, venue_vars, hist_vars, events, clock,
                   reuse_vars, rd, sizing_vars, cache_vars, feed, wsc>>

\* A second passes.
ClockAdvance ==
    /\ clock < MaxClock
    /\ clock' = clock + 1
    /\ sinceTick' = IF gotTick THEN sinceTick + 1 ELSE sinceTick
    /\ UNCHANGED <<main_vars, price_last_updated, gotTick, reuse_vars, rd,
                   sizing_vars, cache_vars, feed, wsc>>

NextClock == ClockPriceMessage \/ ClockAdvance

ClockSpec == Init /\ [][NextClock]_vars

\* --------------------------------------------- should_reuse_order, on its own
ReusePrices == {999, 1000, 1001, 2000, 2001}
ReuseQtys == {1, 2}

ReuseRest ==
    <<mid_price, account_balance, position_size, mode, flip_mode,
      supertrend_signal, order_updates, price_ws_connected,
      user_data_ws_connected, global_vars, task_vars, venue_vars, hist_vars,
      events, clock_vars, rd, sizing_vars, cache_vars, feed, wsc>>

\* The loop records the order it placed.
ReuseOrderStored ==
    /\ \E id \in OrderIds, p \in ReusePrices, sd \in Sides, q \in ReuseQtys :
          /\ active_order_id' = id
          /\ last_order_price' = p
          /\ last_order_side' = sd
          /\ last_order_quantity' = q
    /\ new_order' = NoAsk /\ reuse' = FALSE
    /\ UNCHANGED ReuseRest

\* After a fill the loop clears the order's price, side and quantity.
ReuseFillClears ==
    /\ last_order_price # 0
    /\ last_order_price' = 0
    /\ last_order_side' = "none"
    /\ last_order_quantity' = 0
    /\ new_order' = NoAsk /\ reuse' = FALSE
    /\ UNCHANGED <<active_order_id, ReuseRest>>

\* After a fill-wait timeout the loop clears all four fields.
ReuseTimeoutClears ==
    /\ active_order_id # 0
    /\ active_order_id' = 0
    /\ last_order_price' = 0
    /\ last_order_side' = "none"
    /\ last_order_quantity' = 0
    /\ new_order' = NoAsk /\ reuse' = FALSE
    /\ UNCHANGED ReuseRest

\* The loop asks whether the recorded order serves for the computed one.
ReuseAsk ==
    /\ \E p \in ReusePrices, sd \in Sides, q \in ReuseQtys :
          /\ new_order' = [price |-> p, side |-> sd, qty |-> q]
          /\ reuse' = should_reuse_order(p, sd, q)
    /\ UNCHANGED <<active_order_id, last_order_price, last_order_side,
                   last_order_quantity, ReuseRest>>

NextReuse ==
    ReuseOrderStored \/ ReuseFillClears \/ ReuseTimeoutClears \/ ReuseAsk

ReuseSpec == Init /\ [][NextReuse]_vars

\* ----------------------------------------------------- round_down, on its own
Precisions == {1, 2}

RoundRest ==
    <<main_vars, clock_vars, reuse_vars, sizing_vars, cache_vars, feed, wsc>>

\* A non-negative value with at most as many decimals as the precision, as
\* parsing or dividing yields it.
RoundInput ==
    /\ \E k \in 0..MaxValue, p \in Precisions :
          rd' = [pc |-> "value", precision |-> p, x |-> FDivInt(k, 100),
                 once |-> FZero, twice |-> FZero]
    /\ UNCHANGED RoundRest

RoundOnce ==
    /\ rd.pc = "value"
    /\ rd' = [rd EXCEPT !.pc = "once",
                        !.once = round_down_float(rd.x, rd.precision)]
    /\ UNCHANGED RoundRest

RoundTwice ==
    /\ rd.pc = "once"
    /\ rd' = [rd EXCEPT !.pc = "twice",
                        !.twice = round_down_float(rd.once, rd.precision)]
    /\ UNCHANGED RoundRest

NextRound == RoundInput \/ RoundOnce \/ RoundTwice

RoundSpec == Init /\ [][NextRound]_vars

\* ------------------------------------------- the order computation, on its own
LotSizes == {1, 1000}
SizingPositions == {-3, -1, 0, 1, 3}
SizingBalances == {6000, 100000}
SizingMids == {400, 10000}

SizingRest ==
    <<flip_mode, supertrend_signal, active_order_id, last_order_price,
      last_order_side, last_order_quantity, order_updates, price_ws_connected,
      user_data_ws_connected, global_vars, mainPc, ctlPc, pricePc, userPc, ord,
      venue_vars, hist_vars, events, clock_vars, reuse_vars, rd, last_get,
      feed, wsc>>

\* The loop fetches the symbol's rules and fixes the opening side.
SizingRules ==
    /\ \E l \in LotSizes, sd \in Sides :
          /\ lots_per_unit' = l
          /\ opening_mode' = sd
          /\ mode' = sd
    /\ position_size' = 0
    /\ sized' = NoOrd
    /\ spread_cache' = NoEntry
    /\ UNCHANGED <<mid_price, account_balance, spread_file, SizingRest>>

\* The feeds and the fills leave a price, a balance, a position and a posture;
\* the parameter file is written.
SizingState ==
    /\ opening_mode # "none"
    /\ \E md \in Sides, pos \in SizingPositions, bal \in SizingBalances,
          mid \in SizingMids, f \in FilePayloads :
          /\ mode' = md
          /\ position_size' = pos
          /\ account_balance' = bal
          /\ mid_price' = mid
          /\ spread_file' = f
    /\ sized' = NoOrd
    /\ UNCHANGED <<opening_mode, lots_per_unit, spread_cache, SizingRest>>

\* The loop computes its order.
SizingCompute ==
    /\ opening_mode # "none" /\ mid_price # 0
    /\ CacheFresh \/ ~load_spread_overrides.raises
    /\ sized' = ComputeOrder
    /\ spread_cache' = IF CacheFresh THEN spread_cache ELSE FreshEntry
    /\ UNCHANGED <<mid_price, account_balance, position_size, mode,
                   opening_mode, lots_per_unit, spread_file, SizingRest>>

NextSizing == SizingRules \/ SizingState \/ SizingCompute

SizingSpec == Init /\ [][NextSizing]_vars

\* ------------------------------------------------- the spread cache, on a clock
CacheRest == <<main_vars, clock_vars, reuse_vars, rd, sizing_vars, feed, wsc>>

\* The parameter file is written, replaced or removed.
CacheFileChanges ==
    /\ \E f \in FilePayloads : f # spread_file /\ spread_file' = f
    /\ UNCHANGED <<spread_cache, last_get, CacheRest>>

\* _get_spreads_for_symbol: the cached pair while the entry is fresh, otherwise
\* the file's spreads (the defaults where it gives none) and a new entry; the
\* exception of _load_spread_overrides leaves before anything is stored.
GetSpreadsForSymbol ==
    /\ IF CacheFresh
       THEN /\ last_get' = [buy |-> spread_cache.buy, sell |-> spread_cache.sell,
                            loaded |-> FALSE, replaced |-> -1,
                            raised |-> FALSE]
            /\ UNCHANGED spread_cache
       ELSE IF load_spread_overrides.raises
            THEN /\ last_get' = [buy |-> 0, sell |-> 0, loaded |-> TRUE,
                                 replaced |-> -1, raised |-> TRUE]
                 /\ UNCHANGED spread_cache
       ELSE /\ spread_cache' = FreshEntry
            /\ last_get' =
                   [buy |-> FreshEntry.buy, sell |-> FreshEntry.sell,
                    loaded |-> TRUE,
                    replaced |-> IF spread_cache.set
                                 THEN spread_cache.expires_at ELSE -1,
                    raised |-> FALSE]
    /\ UNCHANGED <<spread_file, CacheRest>>

NextCache == CacheFileChanges \/ GetSpreadsForSymbol \/ ClockAdvance

CacheSpec == Init /\ [][NextCache]_vars

\* ------------------------------------- the feeds' connection loop, on its own
\* websocket_price_updater and websocket_user_data_updater share one loop:
\* clear the flag, connect, send the subscriptions (one for the prices, three
\* for the account), set the flag and reset the delay, receive until the
\* connection closes or goes stale, clear the flag, sleep reconnect_delay and
\* raise it.  feed.pc is "new", "top", "connecting", "subscribing",
\* "receiving", "closing" (leaving the connection's context), "backoff" or
\* "exited"; feed.silent is the time since the last message, in seconds, as
\* the last receive timeout measured it; feed.fails counts the attempts that
\* failed since the last subscription.
FeedRest ==
    <<mid_price, account_balance, position_size, mode, flip_mode,
      supertrend_signal, active_order_id, last_order_price, last_order_side,
      last_order_quantity, order_updates, priceFresh, recentOrder, recentCall,
      task_vars, venue_vars, hist_vars, events, clock_vars, reuse_vars, rd,
      sizing_vars, cache_vars, wsc>>

\* The feed's own flag is written.
SetConnected(v) ==
    IF feed.kind = "price"
    THEN price_ws_connected' = v /\ UNCHANGED user_data_ws_connected
    ELSE user_data_ws_connected' = v /\ UNCHANGED price_ws_connected

\* A delay that doubles.
NextDelayDoubling(d) ==
    IF d * 2 > max_reconnect_delay THEN max_reconnect_delay ELSE d * 2

\* reconnect_delay = min(reconnect_delay * 1.5, max_reconnect_delay): exact
\* on the values the delay takes (5 * 1.5^k s is a whole number of 1/64 s up
\* to the last value under the cap).
NextDelay(d) ==
    IF d * 3 > 2 * max_reconnect_delay THEN max_reconnect_delay
    ELSE (d * 3) \div 2

\* main() creates the task.
FeedStart ==
    /\ feed.pc = "new"
    /\ \E k \in {"price", "user"} : feed' = [feed EXCEPT !.pc = "top", !.kind = k]
    /\ UNCHANGED <<price_ws_connected, user_data_ws_connected,
                   shutdown_requested, FeedRest>>

\* SIGINT / SIGTERM.
FeedShutdown ==
    /\ feed.pc # "new" /\ ~shutdown_requested
    /\ shutdown_requested' = TRUE
    /\ UNCHANGED <<feed, price_ws_connected, user_data_ws_connected, FeedRest>>

\* The outer loop's test, and the flag cleared before the connection attempt.
FeedTop ==
    /\ feed.pc = "top"
    /\ IF shutdown_requested
       THEN /\ feed' = [feed EXCEPT !.pc = "exited"]
            /\ UNCHANGED <<price_ws_connected, user_data_ws_connected>>
       ELSE /\ feed' = [feed EXCEPT !.pc = "connecting"]
            /\ SetConnected(FALSE)
    /\ UNCHANGED <<shutdown_requested, FeedRest>>

\* websockets.connect returns the connection or raises; on the exception the
\* finally clause clears the flag.
FeedConnect ==
    /\ feed.pc = "connecting"
    /\ \E ok \in BOOLEAN :
          IF ok
          THEN /\ feed' = [feed EXCEPT !.pc = "subscribing",
                              !.subsLeft = IF feed.kind = "price" THEN 1 ELSE 3]
               /\ UNCHANGED <<price_ws_connected, user_data_ws_connected>>
          ELSE /\ feed.fails < MaxFails
               /\ feed' = [feed EXCEPT !.pc = IF shutdown_requested
                                                THEN "exited" ELSE "backoff",
                                         !.fails = @ + 1]
               /\ SetConnected(FALSE)
    /\ UNCHANGED <<shutdown_requested, FeedRest>>

\* One subscription request is sent, or the send raises.  After the last one
\* the flag is set, the delay is reset and last_message_time is taken.
FeedSubscribe ==
    /\ feed.pc = "subscribing"
    /\ \E ok \in BOOLEAN :
          IF ok
          THEN IF feed.subsLeft > 1
               THEN /\ feed' = [feed EXCEPT !.subsLeft = @ - 1]
                    /\ UNCHANGED <<price_ws_connected, user_data_ws_connected>>
               ELSE /\ feed' = [feed EXCEPT !.pc = "receiving", !.subsLeft = 0,
                                   !.reconnect_delay = SeedDelay,
                                   !.silent = 0, !.fails = 0,
                                   !.subscribed = TRUE]
                    /\ SetConnected(TRUE)
          ELSE /\ feed.fails < MaxFails
               /\ feed' = [feed EXCEPT !.pc = IF shutdown_requested
                                                THEN "exited" ELSE "backoff",
                                         !.subsLeft = 0, !.fails = @ + 1]
               /\ SetConnected(FALSE)
    /\ UNCHANGED <<shutdown_requested, FeedRest>>

\* One turn of the receive loop: the loop's test; then a message arrives
\* within the timeout, or the connection is closed, or the timeout passes (the
\* timer fires on time or a second late) and the silence is compared with the
\* stale limit.
FeedRecv ==
    /\ feed.pc = "receiving"
    /\ IF shutdown_requested
       THEN feed' = [feed EXCEPT !.pc = "closing"]
       ELSE \E what \in {"message", "closed", "timeout"}, late \in {0, 1} :
               IF what = "message"
               THEN late = 0 /\ feed' = [feed EXCEPT !.silent = 0]
               ELSE IF what = "closed"
                    THEN late = 0 /\ feed' = [feed EXCEPT !.pc = "closing"]
               ELSE LET since == feed.silent + RecvTimeout + late
                    IN  feed' = [feed EXCEPT !.silent = since,
                                    !.pc = IF since > StaleAfter
                                           THEN "closing" ELSE "receiving"]
    /\ UNCHANGED <<price_ws_connected, user_data_ws_connected,
                   shutdown_requested, FeedRest>>

\* A way out of the connection's context that leaves the flag as it is.
FeedClosedKeepsFlag ==
    /\ feed.pc = "closing"
    /\ feed' = [feed EXCEPT !.pc = IF shutdown_requested
                                     THEN "exited" ELSE "backoff"]
    /\ UNCHANGED <<price_ws_connected, user_data_ws_connected,
                   shutdown_requested, FeedRest>>

\* Control has left the connection's context: the finally clause clears the
\* flag.
FeedClosed ==
    /\ feed.pc = "closing"
    /\ feed' = [feed EXCEPT !.pc = IF shutdown_requested
                                     THEN "exited" ELSE "backoff"]
    /\ SetConnected(FALSE)
    /\ UNCHANGED <<shutdown_requested, FeedRest>>

\* asyncio.sleep(reconnect_delay) ends; the delay is raised.
FeedBackoffEnds ==
    /\ feed.pc = "backoff"
    /\ feed' = [feed EXCEPT !.pc = "top",
                   !.reconnect_delay = NextDelay(feed.reconnect_delay)]
    /\ UNCHANGED <<price_ws_connected, user_data_ws_connected,
                   shutdown_requested, FeedRest>>

NextFeed ==
    \/ FeedStart \/ FeedShutdown \/ FeedTop \/ FeedConnect \/ FeedSubscribe
    \/ FeedRecv \/ FeedClosed \/ FeedBackoffEnds

FeedSpec == Init /\ [][NextFeed]_vars

\* ------------------------------------------- PacificaWebSocketClient alone
\* connect_and_run of the order stream client.  wsc.failed counts the
\* connection attempts in a row that did not give an authenticated
\* connection; MaxAttempts bounds how many of them the environment produces.
MaxAttempts == 12

WsRest ==
    <<main_vars, clock_vars, reuse_vars, rd, sizing_vars, cache_vars, feed>>

max_retries == IF wsc.auto_reconnect THEN 10 ELSE 1

\* The reconnection logic that follows the try statement, applied to the
\* client w: the client afterwards.
Reconnection(w) ==
    IF ~w.should_stop /\ w.auto_reconnect
    THEN LET r == w.retry_count + 1
         IN  [w EXCEPT !.retry_count = r,
                       !.pc = IF r < max_retries THEN "backoff" ELSE "done"]
    ELSE [w EXCEPT !.pc = "done"]

\* The constructor, then connect_and_run is called: retry_count = 0.
WsStart ==
    /\ wsc.pc = "new"
    /\ \E a \in BOOLEAN :
          wsc' = [wsc EXCEPT !.pc = "top", !.auto_reconnect = a]
    /\ UNCHANGED WsRest

\* stop(): the flag is set; a connection it closes ends as any other does.
WsStop ==
    /\ wsc.pc \notin {"new", "done"} /\ ~wsc.should_stop
    /\ wsc' = [wsc EXCEPT !.should_stop = TRUE]
    /\ UNCHANGED WsRest

\* The test of the outer while loop.
WsTop ==
    /\ wsc.pc = "top"
    /\ wsc' = [wsc EXCEPT !.pc =
                  IF ~wsc.should_stop /\ wsc.retry_count < max_retries
                  THEN "connecting" ELSE "done"]
    /\ UNCHANGED WsRest

\* websockets.connect: the connection is made and retry_count reset, or the
\* call raises and the reconnection logic runs.
WsConnect ==
    /\ wsc.pc = "connecting"
    /\ \E ok \in BOOLEAN :
          IF ok
          THEN wsc' = [wsc EXCEPT !.is_connected = TRUE, !.retry_count = 0,
                                  !.pc = "auth"]
          ELSE /\ wsc.failed < MaxAttempts
               /\ wsc' = Reconnection([wsc EXCEPT !.failed = @ + 1])
    /\ UNCHANGED WsRest

\* authenticate() returns True, or returns False: the flag is cleared and the
\* loop sleeps and continues, past the reconnection logic.
WsAuthenticate ==
    /\ wsc.pc = "auth"
    /\ \E ok \in BOOLEAN :
          IF ok
          THEN wsc' = [wsc EXCEPT !.failed = 0, !.pc = "subscribe"]
          ELSE /\ wsc.failed < MaxAttempts
               /\ wsc' = [wsc EXCEPT !.is_connected = FALSE,
                                     !.failed = @ + 1, !.pc = "authSleep"]
    /\ UNCHANGED WsRest

\* subscribe_to_channels returns, or raises again what a send raised.
WsSubscribe ==
    /\ wsc.pc = "subscribe"
    /\ \E ok \in BOOLEAN :
          wsc' = IF ok THEN [wsc EXCEPT !.pc = "recv"]
                 ELSE Reconnection([wsc EXCEPT !.is_connected = FALSE])
    /\ UNCHANGED WsRest

\* The receive loop ends: the connection closed, a ping could not be sent,
\* an error was raised, or should_stop was found set.
WsSessionEnds ==
    /\ wsc.pc = "recv"
    /\ wsc' = Reconnection([wsc EXCEPT !.is_connected = FALSE])
    /\ UNCHANGED WsRest

\* asyncio.sleep(reconnect_delay) returns; the loop goes to its test.
WsSleepEnds ==
    /\ wsc.pc \in {"backoff", "authSleep"}
    /\ wsc' = [wsc EXCEPT !.pc = "top"]
    /\ UNCHANGED WsRest

NextWs ==
    \/ WsStart \/ WsStop \/ WsTop \/ WsConnect \/ WsAuthenticate
    \/ WsSubscribe \/ WsSessionEnds \/ WsSleepEnds

WsSpec == Init /\ [][NextWs]_vars

\* ------------------------------------------------------------------ claims
TasksStopped ==
    /\ ctlPc \in {"new", "done"}
    /\ pricePc \in {"new", "done"}
    /\ userPc \in {"new", "done"}

\* A step of the price feed or of the user data feed.
FeedStep ==
    \/ PriceConnect \/ PriceDrop \/ PriceExit \/ PriceTick
    \/ UserConnect \/ UserDrop \/ UserExit
    \/ UserAccountInfo \/ UserAccountPositions \/ UserAccountOrders

\* The controller sends place_order.
IssuesPlace == ctlPc # "place" /\ ctlPc' = "place"

\* The controller sends the emergency cancel.
IssuesEmergCancel == ctlPc = "head" /\ ctlPc' = "emergCancel"

\* The controller applies a matching fill event and goes to the next cycle.
AppliesFill == ctlPc = "wait" /\ ctlPc' = "head"

\* C1: at most one order placed by the controller is live at the venue in
\* every reachable state, a state reached after a failed cancel included.
C1_AtMostOneLive == Cardinality(Live) <= 1

\* C2: place_order is sent only while both feeds are connected, also when the
\* disconnect comes after the head check, during the rate-limit sleep or the
\* cancel call of the cycle.
C2_NoPlaceWhileDisconnected == [][IssuesPlace => Healthy]_vars

\* C3: once the controller has processed the fill event matching the active
\* order, active_order_id is None when the next cycle starts.
C3_IdClearedAfterFill == [][AppliesFill => active_order_id' = 0]_vars

\* C4: whenever a mid price is known, mode is the closing side if and only if
\* |position_size * mid_price| is at or above POSITION_THRESHOLD_USD.
C4_PostureFormula ==
    mid_price # 0 =>
        (mode = ClosingOf(flip_mode)
            <=> Abs(position_size * mid_price) >= POSITION_THRESHOLD_USD)

\* C5: a recovery path (timeout cancel, error cleanup, desync reset, emergency
\* cancel) leaves active_order_id None only if no order the controller placed
\* is still live at the venue.
C5_RecoveryKeepsTrack ==
    [][(/\ ctlPc \in {"timeoutCancel", "errCancel", "emergCancel", "place"}
        /\ ctlPc' = "head"
        /\ active_order_id' = 0) => Live' = {}]_vars

\* C6: the process exits only with every task stopped and after exactly one
\* final cancel_all_orders, which is sent once the tasks have stopped; from
\* that cancel on no order is placed.
C6_ShutdownOrder ==
    /\ [](mainPc = "exited" => TasksStopped /\ cleanupCalls = 1)
    /\ [][cleanupCalls' # cleanupCalls => TasksStopped /\ cleanupCalls = 0]_vars
    /\ [][cleanupCalls' > 0 => ~IssuesPlace /\ placeCalls' = placeCalls]_vars

\* C6 witness: the process has exited on a shutdown signal that came while
\* the controller held a resting order, which the final cancel has cancelled.
C6_Witness ==
    /\ mainPc = "exited" /\ shutdown_requested /\ TasksStopped
    /\ active_order_id # 0 /\ venue[active_order_id].st = "cancelled"

\* C7: no step of the price feed or of the user data feed writes mode or
\* active_order_id.
C7_FeedsLeaveModeAndId ==
    [][FeedStep => UNCHANGED <<mode, active_order_id>>]_vars

\* C8: in one outage (until both feeds are connected again) the emergency
\* cancel is sent at most once for the active order, not again on each
\* polling cycle.
C8_OneCancelPerOutage ==
    [][IssuesEmergCancel => emergTried # active_order_id]_vars

\* C9: a fill of q applied in opening mode on the bid side adds exactly q to
\* position_size; mode becomes the closing side if q * mid >= threshold and
\* stays the opening side if the resulting notional is below the threshold.
C9_OpeningBidFill ==
    [][(AppliesFill /\ mode = "bid" /\ opening_mode = "bid") =>
        LET q == Head(order_updates).z
        IN  /\ position_size' = position_size + q
            /\ q * mid_price >= POSITION_THRESHOLD_USD => mode' = "ask"
            /\ Abs(position_size') * mid_price < POSITION_THRESHOLD_USD
                  => mode' = "bid"]_vars

\* C10: an order whose fill the user data feed saw before the controller had
\* recorded its id is not given up by the controller with the fill unapplied.
C10_EarlyFillNotLost ==
    ~(/\ ctlPc = "timeoutCancel"
      /\ active_order_id # 0
      /\ seenEarly = active_order_id
      /\ venue[active_order_id].st = "filled")

\* C11 (ClockSpec): after any sequence of price messages and clock advances,
\* is_price_data_valid is true if and only if a mid price has been received
\* and the last price update is at most 30 seconds old.
C11_ValidIffFresh ==
    PriceValidAt(mid_price, price_last_updated, clock)
        <=> (gotTick /\ sinceTick <= 30)

\* C11 witness: the price is exactly 30 seconds old and still valid.
C11_Witness ==
    /\ gotTick /\ sinceTick = 30
    /\ PriceValidAt(mid_price, price_last_updated, clock)

C13_RoundDownIdempotent ==
    /\ rd.pc \in {"once", "twice"} => FLeq(rd.once, rd.x)
    /\ rd.pc = "twice" => rd.twice = rd.once

\* C14 (SizingSpec): in the opening posture the computed order is on the
\* opening side, not reduce-only, for 20% of the balance at the mid price; in
\* the closing posture with a nonzero position it is on the opposite side,
\* reduce-only, for the size of the position.
C14_SizingFollowsPosture ==
    sized # NoOrd =>
        /\ mode = opening_mode =>
               /\ sized.side = opening_mode /\ ~sized.ro
               /\ sized.qty = (account_balance * 20 * lots_per_unit)
                                   \div (100 * mid_price)
        /\ (mode = closing_mode /\ position_size # 0) =>
               /\ sized.side = Other(opening_mode) /\ sized.ro
               /\ sized.qty = Abs(position_size)

\* C15 (CacheSpec): once an entry is stored with an expiry of now + 10 s, a
\* read strictly before the expiry returns the cached pair without reading
\* the file; a read at or after the expiry reads the file again and stores a
\* fresh entry that expires 10 s after that read.
C15_CacheRoundTrip ==
    [][(GetSpreadsForSymbol /\ spread_cache.set) =>
          IF clock < spread_cache.expires_at
          THEN /\ last_get'.buy = spread_cache.buy
               /\ last_get'.sell = spread_cache.sell
               /\ ~last_get'.loaded
               /\ spread_cache' = spread_cache
          ELSE /\ last_get'.loaded
               /\ spread_cache'.expires_at = clock + SPREAD_CACHE_TTL_SECONDS
               /\ last_get'.buy = spread_cache'.buy
               /\ last_get'.sell = spread_cache'.sell]_vars

\* C16: a start-up failure is fatal.  When the initial balance could not be
\* fetched, main is on its way out and no task was created; when the symbol's
\* rules could not be fetched, the controller task is over; in both cases no
\* order was placed, and none ever is.
NoPlaceIssued ==
    /\ placeCalls = 0 /\ ctlPc # "place"
    /\ \A o \in OrderIds : venue[o].st = "none"

C16_StartupFailureFatal ==
    /\ (mainPc # "start" /\ account_balance = 0) =>
           /\ mainPc \in {"cleanup", "exited"}
           /\ ctlPc = "new"
           /\ NoPlaceIssued
    /\ (ctlPc \notin {"new", "init"} /\ opening_mode = "none") =>
           /\ ctlPc = "done"
           /\ NoPlaceIssued

\* C16 witness: the balance fetch failed and the process ended after its
\* clean-up, with no task created and no order placed.
C16_Witness ==
    /\ mainPc = "exited" /\ account_balance = 0 /\ ctlPc = "new"
    /\ cleanupCalls = 1 /\ placeCalls = 0 /\ ~shutdown_requested

\* C17: a cancel that fails because the order no longer exists at the venue
\* counts as a success: when such a cancel returns, the controller clears the
\* id of its active order.
CancelOfGoneReturns ==
    /\ ctlPc \in {"emergCancel", "cancel", "errCancel", "timeoutCancel"}
    /\ ctlPc' # ctlPc /\ mainPc' = mainPc
    /\ active_order_id # 0 /\ active_order_id \notin Live

C17_GoneCancelIsSuccess ==
    [][CancelOfGoneReturns => active_order_id' = 0]_vars

\* C18: only the venue's rejection of a reduce-only order that has no matching
\* position resets the tracked position and the posture; a place call that
\* fails for any other reason leaves both unchanged.
PlaceFailsOtherwise ==
    /\ ctlPc = "place" /\ ctlPc' \in {"head", "errCancel"}
    /\ ~ReduceOnlyRejected

C18_OnlyDesyncResets ==
    [][PlaceFailsOtherwise =>
          position_size' = position_size /\ mode' = mode]_vars

\* C19: a fill wait that ends with no event taken from the queue issues a
\* cancel for the waited order; when that cancel returns the controller has
\* cleared the order's id and left the posture and the position as they were.
\* Every fill wait is on a newly placed order: the wait on a reused order is
\* never entered.
WaitTimesOut ==
    /\ ctlPc \in {"wait", "reuseWait"} /\ ctlPc' \notin {ctlPc, "done"}
    /\ order_updates' = order_updates

TimeoutCancelReturns ==
    ctlPc = "timeoutCancel" /\ ctlPc' # ctlPc /\ mainPc' = mainPc

WaitDiscards ==
    /\ ctlPc \in {"wait", "reuseWait"} /\ ctlPc' = ctlPc
    /\ order_updates # <<>> /\ order_updates' = Tail(order_updates)

C20_FillEventApplied ==
    [][WaitDiscards => Head(order_updates).z = 0]_vars

\* C21 (SizingSpec): in the closing posture with no position the computed
\* order is the one the opening posture would give for the same balance and
\* mid price: on the opening side, not reduce-only, for 20% of the balance.
C21_FlatClosingAsOpening ==
    (sized # NoOrd /\ mode = closing_mode /\ position_size = 0) =>
        /\ sized.side = opening_mode
        /\ ~sized.ro
        /\ sized.qty = CapitalQuantity

\* C22: every order sent to the venue has a quantity above 0 and a notional
\* (quantized price times quantized quantity) of at least the minimum; a cycle
\* whose computed order fails either test places nothing and returns to the
\* head of the loop.
OrderTooSmall(o) == o.qty <= 0 \/ o.price * o.qty < MinNotional

C22_OnlyValidOrdersSent ==
    /\ [](ctlPc = "place" => ~OrderTooSmall(ord))
    /\ [](\A o \in OrderIds :
             venue[o].st # "none" => ~OrderTooSmall(venue[o]))
    /\ [][(/\ ctlPc = "head" /\ ~shutdown_requested /\ Healthy
           /\ is_price_data_valid /\ is_balance_data_valid
           /\ OrderTooSmall(ComputeOrder))
             => ctlPc' \in {"head", "done"} /\ placeCalls' = placeCalls]_vars

\* C22 witness: an order that passed both tests, with a notional within 2 USD
\* of the minimum, is being placed.
C22_Witness ==
    /\ ctlPc = "place" /\ ord.qty > 0
    /\ ord.price * ord.qty >= MinNotional
    /\ ord.price * ord.qty < MinNotional + 2 * TicksPerUsd

\* C23 (SizingSpec): every order is priced away from the mid on its own side:
\* the price of a bid, after the rounding to the tick, is below the mid it was
\* computed from, and the price of an ask is above it.
C23_PricedAwayFromMid ==
    sized # NoOrd =>
        /\ sized.side = "bid" => sized.price < mid_price
        /\ sized.side = "ask" => sized.price > mid_price

\* C30 (CacheSpec): every resolution of the spreads returns, for each side,
\* the static default or a spread of the file within the thresholds, whatever
\* the file holds, and never raises.
C30_SpreadsBoundedNoRaise ==
    [][GetSpreadsForSymbol =>
          /\ ~last_get'.raised
          /\ \/ last_get'.buy = DEFAULT_BUY_SPREAD
             \/ /\ SPREAD_MIN_THRESHOLD <= last_get'.buy
                /\ last_get'.buy <= SPREAD_MAX_THRESHOLD
          /\ \/ last_get'.sell = DEFAULT_SELL_SPREAD
             \/ /\ SPREAD_MIN_THRESHOLD <= last_get'.sell
                /\ last_get'.sell <= SPREAD_MAX_THRESHOLD]_vars

\* C24 (Spec): two consecutive calls of place_order are at least
\* MIN_ORDER_INTERVAL (1 s) apart on every path of the loop: whenever the loop
\* is about to call place_order, at least that interval has passed since its
\* last call, after a fill that ends the wait at once and after a failed
\* placement alike.
C24_PlaceCallsSpaced == ctlPc = "place" => ~recentCall

\* The rate limiter holds a cycle back: an order was placed less than
\* MIN_ORDER_INTERVAL ago and the loop sleeps before the next placement.
C24_Witness ==
    ctlPc = "rateSleep" /\ recentCall /\ placeCalls >= 1 /\ ord # NoOrd

\* C25 (FeedSpec): when the price feed has received no message for more than
\* 30 s, the receive timeout that finds it so tears the connection down, and
\* the flag price_ws_connected is false from then until the subscription is
\* sent again.
C25_SilenceReconnects ==
    /\ [][(/\ feed.kind = "price" /\ feed.pc = "receiving"
           /\ ~shutdown_requested
           /\ feed'.silent > 30) => feed'.pc = "closing"]_vars
    /\ [](feed.kind = "price"
            /\ feed.pc \in {"backoff", "top", "connecting", "subscribing"}
          => ~price_ws_connected)

\* C26 (FeedSpec): a feed's flag is true only while the feed holds a
\* connection on which its subscriptions have been sent: it is false while
\* the feed is not started, connecting, subscribing, backing off or has
\* exited, and a feed never sets the other feed's flag.
C26_FlagOnlyWhileSubscribed ==
    /\ price_ws_connected =>
          feed.kind = "price" /\ feed.pc \in {"receiving", "closing"}
    /\ user_data_ws_connected =>
          feed.kind = "user" /\ feed.pc \in {"receiving", "closing"}

\* The account feed backs off after a connection on which it was subscribed.
C26_Witness ==
    /\ feed.kind = "user" /\ feed.pc = "backoff" /\ feed.subscribed
    /\ feed.fails = 0 /\ ~user_data_ws_connected

RECURSIVE Pow3(_)
Pow3(k) == IF k = 0 THEN 1 ELSE 3 * Pow3(k - 1)

\* C27 (FeedSpec): the sleep before the first reconnection attempt after a
\* subscription is 5 s, each further attempt that fails in a row multiplies
\* it by 1.5, and the delay never exceeds 60 s, for both feeds.
C27_BackoffSchedule ==
    /\ feed.reconnect_delay <= 60 * DelayUnit
    /\ (feed.pc = "backoff" /\ feed.subscribed) =>
          feed.reconnect_delay =
              IF 5 * DelayUnit * Pow3(feed.fails)
                    > 60 * DelayUnit * Pow2(feed.fails)
              THEN 60 * DelayUnit
              ELSE (5 * DelayUnit * Pow3(feed.fails)) \div Pow2(feed.fails)

\* The delay has reached the cap after seven failed attempts in a row.
C27_Witness ==
    /\ feed.pc = "backoff" /\ feed.subscribed /\ feed.fails = 7
    /\ feed.reconnect_delay = 60 * DelayUnit

\* C28 (Spec): an account_positions message without the symbol leaves the
\* position flat (position_size 0) and, when an order is outstanding, puts a
\* terminal fill event for it on the queue.
C28_FlatPositionEndsOrder ==
    [][(UserAccountPositions /\ venuePos = 0) =>
          /\ position_size' = 0
          /\ active_order_id # 0 =>
                /\ Len(order_updates') = Len(order_updates) + 1
                /\ order_updates'[Len(order_updates')].i = active_order_id]_vars

\* C29 (Spec): when the held order is missing from an account_orders message,
\* a terminal fill event for it is put on the queue whose filled quantity is
\* what the order had filled: its quantity when it filled, and not its
\* original quantity when it did not.
C29_AbsentOrderFilledQuantity ==
    [][(UserAccountOrders /\ active_order_id # 0 /\ active_order_id \notin Live)
          => /\ Len(order_updates') = Len(order_updates) + 1
             /\ order_updates'[Len(order_updates')].i = active_order_id
             /\ order_updates'[Len(order_updates')].z =
                   IF active_order_id \in Filled
                   THEN venue[active_order_id].qty ELSE 0]_vars

\* C31 (Spec): applying the fill of the held order moves position_size in the
\* direction of the order's side, whatever the account feed has written in
\* between: the fill of a bid never lowers position_size and the fill of an
\* ask never raises it.
C31_FillMovesWithSide ==
    [][(/\ CtlWaitGets
        /\ order_updates # <<>>
        /\ Head(order_updates).i = active_order_id)
          => /\ venue[active_order_id].side = "bid" =>
                    position_size' >= position_size
             /\ venue[active_order_id].side = "ask" =>
                    position_size' <= position_size]_vars

\* C32 (Spec): the reuse branch is never taken: at every reuse check of the
\* loop active_order_id is None or last_order_price is None, so
\* should_reuse_order answers false and the cycle goes on to cancel and
\* place; the loop is never found waiting on a reused order.
C32_ReuseNeverTaken ==
    /\ ctlPc = "head" => (active_order_id = 0 \/ last_order_price = 0)
    /\ ctlPc # "reuseWait"

\* A reuse check with an order id still held after its fill was applied: the
\* order's details are gone.
C32_Witness ==
    /\ ctlPc = "head" /\ active_order_id # 0 /\ last_order_price = 0
    /\ active_order_id \in Filled /\ Healthy
    /\ is_price_data_valid /\ ~shutdown_requested

\* C33 (Spec): every reduce-only order the loop is about to place is on the
\* side that reduces the position: an ask only with position_size > 0 and a
\* bid only with position_size < 0.
C33_ReduceOnlyReduces ==
    (ctlPc = "place" /\ ord.ro) =>
        /\ ord.side = "ask" => position_size > 0
        /\ ord.side = "bid" => position_size < 0

\* C34 (Spec): when the loop goes on to send a reduce-only order, the order's
\* quantity is at most |position_size| and position_size is not zero, also
\* when the account feed has written position_size during the rate limiter's
\* sleep or the cancel that lie between the computation and the placement.
C34_ReduceOnlyWithinPosition ==
    [][(ctlPc # "place" /\ ctlPc' = "place" /\ ord'.ro) =>
          /\ position_size' # 0
          /\ ord'.qty <= Abs(position_size')]_vars

\* C35 (Spec): an event taken off the queue changes position_size or mode only
\* when its order id is the active order id at that moment, and no order id
\* has its fill event applied twice; an event left over from an earlier order
\* is dropped with position_size and mode unchanged.
C35_FillAppliedOncePerId ==
    [][(CtlWaitGets /\ order_updates # <<>>) =>
          LET e == Head(order_updates)
          IN  /\ (position_size' # position_size \/ mode' # mode) =>
                     e.i = active_order_id
              /\ e.i # active_order_id => applied' = applied
              /\ applied' # applied => e.i \notin applied]_vars

\* The loop, waiting for order 2, finds the stale event of order 1, whose fill
\* it has applied before, at the head of the queue.
C35_Witness ==
    /\ ctlPc = "wait" /\ order_updates # <<>>
    /\ Head(order_updates).i # active_order_id
    /\ Head(order_updates).i \in applied

\* C36 (Spec): the account feed puts at most one terminal fill event per order
\* id on the queue: an account_orders message enqueues no event for an id that
\* has an event waiting in the queue or whose fill the loop has already
\* applied.
C36_OneEventPerId ==
    [][(UserAccountOrders /\ order_updates' # order_updates) =>
          LET e == order_updates'[Len(order_updates')]
          IN  /\ e.i \notin applied
              /\ \A k \in 1..Len(order_updates) : order_updates[k].i # e.i]_vars

\* C37 (Spec): once the loop has set its opening side, it is the side the
\* account feed takes as opening when it sets mode from state.flip_mode, in
\* every state, also after the Supertrend signal has changed flip_mode.
C37_SameSideMapping ==
    opening_mode # "none" => opening_mode = OpeningOf(flip_mode)

\* C38 (Spec): with no position, the first order the loop computes for
\* placement is on the opening side of the bias in force: an ask when
\* flip_mode is true (also when the initial Supertrend signal set it), a bid
\* when flip_mode is false.
C38_FirstOrderOnBiasSide ==
    [][(/\ CtlHead
        /\ placeCalls = 0 /\ position_size = 0 /\ venuePos = 0
        /\ ord'.side # "none")
          => ord'.side = OpeningOf(flip_mode')]_vars

\* C39 (Spec): once the controller task exists the balance data is valid in
\* every state: the process ends at startup when the balance cannot be
\* fetched, and no message of the account feed and no reconnect takes the
\* balance away, so the loop's wait for balance data is never taken.
C39_BalanceAlwaysValid ==
    ctlPc # "new" => is_balance_data_valid

\* The loop is at its head with an order recorded while the account feed is
\* down and reconnecting.
C39_Witness ==
    /\ ctlPc = "head" /\ active_order_id # 0
    /\ userPc = "down" /\ ~user_data_ws_connected
    /\ is_balance_data_valid /\ ~shutdown_requested

\* C40 (WsSpec): connect_and_run ends after a bounded number of failed
\* attempts in a row, a connection that fails authentication counting as
\* one: never more than 10 with auto_reconnect and never more than one
\* without, and it has ended when that number is reached.
C40_BoundedAttempts ==
    /\ wsc.failed <= max_retries
    /\ wsc.failed = max_retries => wsc.pc = "done"

====
